---- MODULE Spec2Model ----
(***************************************************************************)
(* A model of src/src/optimized_miner.py: the coordinator loop of main(),  *)
(* the process pool that runs btc_worker, the shared nonce counter, the    *)
(* CachedBlockTemplate object and the node behind rpc_call.                *)
(***************************************************************************)
EXTENDS Integers, Sequences, FiniteSets, TLC

VARIABLES
    counter,      \* nonce_counter.value (manager.Value): an unbounded Python int
    cache,        \* the coordinator's CachedBlockTemplate: [template, last_update]
    pc,           \* the coordinator's position in main(): dispatch, collect, sleep, crashed
    k,            \* index of the future the coordinator waits on in "for f in futures"
    tasks,        \* work items of the pool, in submission order
    now,          \* time.time(), in seconds
    tip,          \* the node's chain height
    nodeTarget,   \* the target the node puts in its templates
    nodeUp,       \* whether an RPC to the node gets an answer
    hist,         \* history of one CachedBlockTemplate: its last fetch and its last get()
    lock,         \* counter_lock: 0 when free, else the caller holding it
    callers,      \* concurrent callers of nonce_allocator: position and locals of each
    issued,       \* history: the values read from the counter, in the order they were read
    search,       \* one run of the loop of btc_worker: its range, template and position
    payout,       \* one process's MINING_ADDR_HEX and the calls it made for a script
    far,          \* the main loop after a long run without a winner
    hdr,          \* one header assembled by btc_worker
    cs,           \* calls of compact_size
    ledger        \* the two MinervaChain ledgers (miner.py, minerva_chain.py) and their files

vars == <<counter, cache, pc, k, tasks, now, tip, nodeTarget, nodeUp,
          hist, lock, callers, issued, search, payout, far, hdr, cs,
          ledger>>

\* the variables of the functions studied on their own
unitVars == <<payout, far, hdr, cs, ledger>>

\* the variables the main loop leaves alone
sideVars == <<hist, lock, callers, issued, search, unitVars>>

----------------------------------------------------------------------------
(* Program constants *)

NONCE_BLOCK_SIZE == 1000

BLOCK_TEMPLATE_REFRESH_SECONDS == 30

\* CORES = os.cpu_count() or 4, on a machine with two processors: the workers of the
\* pool and the futures of a wave
CORES == 2

(* Bounds of the model *)

\* ranges the counter may hand out before the model stops allocating
MaxRanges == 4

\* the clock when the process starts (time.time() counts from 1970)
StartTime == 100

\* clock ticks the model follows
MaxTicks == 1

\* blocks the node's chain may grow by
MaxTip == 1

MaxCounter == MaxRanges * NONCE_BLOCK_SIZE

MaxNow == StartTime + MaxTicks * (BLOCK_TEMPLATE_REFRESH_SECONDS + 1)

----------------------------------------------------------------------------
(* Values *)

\* Python's None where a template is expected (falsy)
NoTemplate == [height |-> -1, curtime |-> 0, target |-> 0]

\* no block submitted
NoBlock == [pre |-> NoTemplate, nonce |-> <<>>, txcount |-> 0, cb |-> -1]

\* digests are modelled as integers 0 .. DigestSpace-1
DigestSpace == 12

\* targets a template may carry: nothing passes, some nonces pass, every nonce passes
Targets == {0, 2, DigestSpace}

Truthy(t) == t # NoTemplate

\* a key the node's answer lacks: tmpl["target"] raises KeyError
Missing == -1

\* the answer holds the keys btc_worker reads
WellFormed(t) == t.target # Missing

\* struct.pack("<I", n): four bytes, least significant first
PackLE32(n) == << n % 256, (n \div 256) % 256, (n \div 65536) % 256, (n \div 16777216) % 256 >>

\* f"{n:08x}" read as bytes: most significant first
Hex08(n) == << (n \div 16777216) % 256, (n \div 65536) % 256, (n \div 256) % 256, n % 256 >>

\* dsha256 of the 80-byte header, as the integer int.from_bytes(h[::-1], "big")
\* (a function of the nonce n the four bytes spell, least significant first, worked
\* out from n mod 3 * NONCE_BLOCK_SIZE and n mod 4 so that no intermediate value
\* leaves the checker's integers)
DigestInt(tmpl, nonceBytes) ==
    LET p == 3 * NONCE_BLOCK_SIZE
        m == (nonceBytes[1] + 256 * nonceBytes[2] + (65536 % p) * nonceBytes[3]
              + (16777216 % p) * nonceBytes[4]) % p
        seed == tmpl.height + tmpl.curtime
    IN  (((m \div NONCE_BLOCK_SIZE) + seed) % 3) * 4 + ((nonceBytes[1] + 2) % 4)

\* rpc_call("getblocktemplate"): the node's template, or None when the call fails
RpcGetBlockTemplate ==
    IF nodeUp THEN [height |-> tip, curtime |-> now, target |-> nodeTarget]
    ELSE NoTemplate

\* the staleness test with >= for >
NeedsFetch_AtInterval(c, t) ==
    ~Truthy(c.template) \/ (t - c.last_update) >= BLOCK_TEMPLATE_REFRESH_SECONDS

\* line 78 of CachedBlockTemplate.get: whether object c is refreshed at time t
NeedsFetch(c, t) ==
    ~Truthy(c.template) \/ (t - c.last_update) > BLOCK_TEMPLATE_REFRESH_SECONDS

\* get() that stamps last_update whether or not the fetch gave a template
CacheGet_StampAlways(c, t, r) ==
    LET asked == NeedsFetch(c, t)
        c2 == IF asked
              THEN [template |-> IF Truthy(r) THEN r ELSE c.template, last_update |-> t]
              ELSE c
    IN  [obj |-> c2, ret |-> c2.template, asked |-> asked, fetched |-> asked /\ Truthy(r)]

\* CachedBlockTemplate.get on object c at time t, the node answering r if asked:
\* the object afterwards, what is returned, and whether the node was asked
CacheGet(c, t, r) ==
    LET asked == NeedsFetch(c, t)
        c2 == IF asked /\ Truthy(r) THEN [template |-> r, last_update |-> t] ELSE c
    IN  [obj |-> c2, ret |-> c2.template, asked |-> asked, fetched |-> asked /\ Truthy(r)]

\* the comparison with <= for <
Hit_OrEqual(tmpl, target, n) == DigestInt(tmpl, PackLE32(n)) <= target

\* line 103 of btc_worker: whether nonce n gives a digest below the target
Hit(tmpl, target, n) == DigestInt(tmpl, PackLE32(n)) < target

\* the loop of btc_worker over [start, end) as a whole: it returns at the first nonce
\* that passes line 103, and returns False when the range holds none
Search(start, end, tmpl, target) ==
    IF \E n \in start .. (end - 1) : Hit(tmpl, target, n)
    THEN [found |-> TRUE,
          nonce |-> CHOOSE n \in start .. (end - 1) :
                        /\ Hit(tmpl, target, n)
                        /\ \A m \in start .. (n - 1) : ~Hit(tmpl, target, m)]
    ELSE [found |-> FALSE, nonce |-> -1]

\* the templates the node can serve and the ranges the counter can give in the model
Templates ==
    [height : 0 .. MaxTip,
     curtime : {StartTime + j * (BLOCK_TEMPLATE_REFRESH_SECONDS + 1) : j \in 0 .. MaxTicks},
     target : Targets]

RangeStarts == {r * NONCE_BLOCK_SIZE : r \in 0 .. (MaxRanges - 1)}

\* Search over each range and template of the model, computed once
\* (the loop reads nothing but its range and the template)
SearchRows ==
    {[start |-> s, tmpl |-> t, r |-> Search(s, s + NONCE_BLOCK_SIZE, t, t.target)] :
        s \in RangeStarts, t \in Templates}

SearchRange(start, tmpl) ==
    (CHOOSE row \in SearchRows : row.start = start /\ row.tmpl = tmpl).r

\* full_hex of btc_worker: header preimage, nonce, transaction count, coinbase
FullHex(tmpl, nonce) ==
    [pre |-> tmpl, nonce |-> Hex08(nonce), txcount |-> 1, cb |-> tmpl.height]

----------------------------------------------------------------------------
(* The pool *)

Futures == SelectSeq(tasks, LAMBDA t : t.cur)

Running == {i \in DOMAIN tasks : tasks[i].st = "running"}

\* ProcessPoolExecutor: work items start in submission order, CORES at a time
CanStart(i) ==
    /\ tasks[i].st = "queued"
    /\ Cardinality(Running) < CORES
    /\ \A j \in 1 .. (i - 1) : tasks[j].st # "queued"

\* the futures taken from the last one dispatched
FutureIndex_FromEnd(n) ==
    CHOOSE i \in DOMAIN tasks :
        /\ tasks[i].cur
        /\ Cardinality({j \in i .. Len(tasks) : tasks[j].cur}) = n

\* index in tasks of the n-th future of the wave
FutureIndex(n) ==
    CHOOSE i \in DOMAIN tasks :
        /\ tasks[i].cur
        /\ Cardinality({j \in 1 .. i : tasks[j].cur}) = n

----------------------------------------------------------------------------
\* one CachedBlockTemplate after __init__, and its history
NewCache == [template |-> NoTemplate, last_update |-> 0]

NoGet == [got |-> "none", at |-> 0, up |-> FALSE, ret |-> NoTemplate, pre |-> NewCache,
          post |-> NewCache, preFetchAt |-> -1, preInval |-> FALSE]

\* the state of the parts a specification does not run
UnitInit ==
    /\ payout = [pc |-> "idle"]
    /\ far = [pc |-> "idle"]
    /\ hdr = [pc |-> "idle"]
    /\ cs = [pc |-> "idle"]
    /\ ledger = [pc |-> "idle"]

SideInit ==
    /\ UnitInit
    /\ hist = [fetchAt |-> -1, inval |-> FALSE, last |-> NoGet]
    /\ lock = 0
    /\ callers = <<>>
    /\ issued = <<>>
    /\ search = [pc |-> "idle"]

Init ==
    /\ counter = 0
    /\ cache = NewCache
    /\ pc = "dispatch"
    /\ k = 1
    /\ tasks = <<>>
    /\ now = StartTime
    /\ tip = 0
    /\ nodeTarget \in Targets \cup {Missing}
    /\ nodeUp \in BOOLEAN
    /\ SideInit

\* an allocator that hands out the range and leaves the counter where it was
nonce_allocator_NoAdvance(c) ==
    [start |-> c, end |-> c + NONCE_BLOCK_SIZE, counter |-> c]

\* nonce_allocator, called by the coordinator alone: the range and the counter after
nonce_allocator(c) ==
    [start |-> c, end |-> c + NONCE_BLOCK_SIZE, counter |-> c + NONCE_BLOCK_SIZE]

\* main: one turn of "for _ in range(CORES)": allocate a range, submit a work item
\* (exe.submit pickles block_template: the worker gets a copy of the object)
Submit ==
    /\ pc = "dispatch"
    /\ counter < MaxCounter
    /\ LET a == nonce_allocator(counter)
           item == [start |-> a.start, end |-> a.end, st |-> "queued", res |-> "none",
                    bt |-> cache, nonce |-> -1, block |-> NoBlock, cur |-> TRUE,
                    verdict |-> "none"]
       IN  /\ counter' = a.counter
           /\ tasks' = Append(tasks, item)
           /\ pc' = IF Len(Futures) + 1 = CORES THEN "collect" ELSE "dispatch"
    /\ k' = 1
    /\ UNCHANGED <<cache, now, tip, nodeTarget, nodeUp, sideVars>>

\* a worker that goes on without a template: tmpl["height"] raises
WorkerEntry_NoCheck(t) == IF Truthy(t) /\ WellFormed(t) THEN "run" ELSE "raise"

\* btc_worker, lines 87-99: without a template the worker returns None; with one
\* that lacks a key, the subscript raises KeyError before the loop
WorkerEntry(t) ==
    IF ~Truthy(t) THEN "None" ELSE IF WellFormed(t) THEN "run" ELSE "raise"

\* btc_worker up to the loop: get() on the worker's copy of block_template
Start(i) ==
    /\ CanStart(i)
    /\ LET g == CacheGet(tasks[i].bt, now, RpcGetBlockTemplate)
           e == WorkerEntry(g.ret)
       IN  tasks' = [tasks EXCEPT ![i].bt = g.obj,
                                  ![i].st = IF e = "run" THEN "running" ELSE "done",
                                  ![i].res = IF e = "run" THEN "none" ELSE e]
    /\ UNCHANGED <<counter, cache, pc, k, now, tip, nodeTarget, nodeUp, sideVars>>

\* rpc_call("submitblock", [full_hex]) as the node sees it: no answer when the node
\* is unreachable (rpc_call gives None), else the block is accepted when the header
\* it carries hashes below its target, and rejected otherwise
SubmitBlock(b, up) ==
    IF ~up THEN "failed"
    ELSE IF DigestInt(b.pre, b.nonce) < b.pre.target THEN "accepted"
    ELSE "rejected"

\* a worker that reports a find only when the node took the block
WorkerResult_IfAccepted(found, verdict) ==
    IF found /\ verdict = "accepted" THEN "True" ELSE "False"

\* btc_worker, lines 103-108: what the loop returns; the value of rpc_call at line
\* 106 is dropped
WorkerResult(found, verdict) == IF found THEN "True" ELSE "False"

\* btc_worker, the loop: search the range, submit the block of the first nonce found
Finish(i) ==
    /\ tasks[i].st = "running"
    /\ LET tmpl == tasks[i].bt.template
           r == SearchRange(tasks[i].start, tmpl)
           b == IF r.found THEN FullHex(tmpl, r.nonce) ELSE NoBlock
           v == IF r.found THEN SubmitBlock(b, nodeUp) ELSE "none"
       IN  tasks' = [tasks EXCEPT ![i].st = "done",
                                  ![i].res = WorkerResult(r.found, v),
                                  ![i].nonce = r.nonce,
                                  ![i].block = b,
                                  ![i].verdict = v]
    /\ UNCHANGED <<counter, cache, pc, k, now, tip, nodeTarget, nodeUp, sideVars>>

\* a coordinator that resets after every result
CounterAfter_Always(res, c) == 0

\* main, lines 135-137: the counter after the coordinator has looked at a result
CounterAfter(res, c) == IF res = "True" THEN 0 ELSE c

\* a coordinator that goes on to the wave's other futures after a truthy result
AfterResult_NoBreak(res, kk, n) ==
    [pc |-> IF kk = n THEN "sleep" ELSE "collect", k |-> kk + 1]

\* main, lines 134-139: where the for loop over the n futures goes after the kk-th
\* result: "break" on a truthy one, the next future otherwise
AfterResult(res, kk, n) ==
    IF res = "True" THEN [pc |-> "sleep", k |-> kk]
    ELSE [pc |-> IF kk = n THEN "sleep" ELSE "collect", k |-> kk + 1]

\* main: "for f in futures: if f.result(): ..." on the k-th future, once it is done
Collect ==
    /\ pc = "collect"
    /\ k <= Len(Futures)
    /\ LET f == tasks[FutureIndex(k)]
       IN  /\ f.st = "done"
           /\ IF f.res = "raise"
              THEN /\ pc' = "crashed"
                   /\ UNCHANGED <<counter, cache, k>>
              ELSE IF f.res = "True"
              THEN /\ counter' = CounterAfter(f.res, counter)
                   /\ cache' = [cache EXCEPT !.last_update = 0]
                   /\ pc' = AfterResult(f.res, k, Len(Futures)).pc
                   /\ k' = AfterResult(f.res, k, Len(Futures)).k
              ELSE /\ counter' = CounterAfter(f.res, counter)
                   /\ k' = AfterResult(f.res, k, Len(Futures)).k
                   /\ pc' = AfterResult(f.res, k, Len(Futures)).pc
                   /\ UNCHANGED cache
    /\ UNCHANGED <<tasks, now, tip, nodeTarget, nodeUp, sideVars>>

\* the work items still queued or running when the coordinator drops its futures
Abandoned(ts) ==
    LET live == SelectSeq(ts, LAMBDA t : t.st # "done")
    IN  [i \in 1 .. Len(live) |-> [live[i] EXCEPT !.cur = FALSE]]

\* main: time.sleep(0.05), then "futures = []" of the next turn of the while loop
Sleep ==
    /\ pc = "sleep"
    /\ pc' = "dispatch"
    /\ tasks' = Abandoned(tasks)
    /\ k' = 1
    /\ UNCHANGED <<counter, cache, now, tip, nodeTarget, nodeUp, sideVars>>

(* The environment *)

\* the clock passes the refresh interval
Tick ==
    /\ now + BLOCK_TEMPLATE_REFRESH_SECONDS + 1 <= MaxNow
    /\ now' = now + BLOCK_TEMPLATE_REFRESH_SECONDS + 1
    /\ UNCHANGED <<counter, cache, pc, k, tasks, tip, nodeTarget, nodeUp, sideVars>>

\* the chain grows (a block of ours or of another miner): later templates differ
NodeAdvance ==
    /\ tip < MaxTip
    /\ tip' = tip + 1
    /\ UNCHANGED <<counter, cache, pc, k, tasks, now, nodeTarget, nodeUp, sideVars>>

\* the node becomes unreachable, or reachable again
NodeFlip ==
    /\ nodeUp' = ~nodeUp
    /\ UNCHANGED <<counter, cache, pc, k, tasks, now, tip, nodeTarget, sideVars>>

Next ==
    \/ Submit
    \/ \E i \in DOMAIN tasks : Start(i)
    \/ \E i \in DOMAIN tasks : Finish(i)
    \/ Collect
    \/ Sleep
    \/ Tick
    \/ NodeAdvance
    \/ NodeFlip

Spec == Init /\ [][Next]_vars

\* two ranges [start, end) share no nonce
Disjoint(a, b) == a.end <= b.start \/ b.end <= a.start

----------------------------------------------------------------------------
(* nonce_allocator under concurrent callers.  The counter is a manager.Value: *)
(* reading .value and assigning .value are separate requests to the manager, *)
(* and "shared_counter.value += n" is a read followed by a write.            *)

\* concurrent callers of nonce_allocator
NCallers == 3

Callers == 1 .. NCallers

\* the variables nonce_allocator leaves alone
allocFrame ==
    <<cache, pc, k, tasks, now, tip, nodeTarget, nodeUp, hist, search, unitVars>>

InitAlloc ==
    /\ counter = 0
    /\ cache = NewCache
    /\ pc = "dispatch"
    /\ k = 1
    /\ tasks = <<>>
    /\ now = StartTime
    /\ tip = 0
    /\ nodeTarget = 0
    /\ nodeUp = TRUE
    /\ UnitInit
    /\ hist = [fetchAt |-> -1, inval |-> FALSE, last |-> NoGet]
    /\ search = [pc |-> "idle"]
    /\ lock = 0
    /\ callers = [p \in Callers |-> [pc |-> "idle", start |-> -1, tmp |-> -1]]
    /\ issued = <<>>

\* a lock that lets every caller in
LockAvailable_NoLock(l) == TRUE

\* "with lock:" lets a caller in when nobody holds the lock
LockAvailable(l) == l = 0

\* the call is made
Call(p) ==
    /\ callers[p].pc = "idle"
    /\ callers' = [callers EXCEPT ![p].pc = "waiting"]
    /\ UNCHANGED <<counter, lock, issued, allocFrame>>

\* line 112: with lock (__enter__)
Acquire(p) ==
    /\ callers[p].pc = "waiting"
    /\ LockAvailable(lock)
    /\ lock' = p
    /\ callers' = [callers EXCEPT ![p].pc = "locked"]
    /\ UNCHANGED <<counter, issued, allocFrame>>

\* line 113: start = shared_counter.value
ReadStart(p) ==
    /\ callers[p].pc = "locked"
    /\ callers' = [callers EXCEPT ![p].pc = "read", ![p].start = counter]
    /\ issued' = Append(issued, counter)
    /\ UNCHANGED <<counter, lock, allocFrame>>

\* line 114, the read of "+=": shared_counter.value
ReadAgain(p) ==
    /\ callers[p].pc = "read"
    /\ callers' = [callers EXCEPT ![p].pc = "add", ![p].tmp = counter]
    /\ UNCHANGED <<counter, lock, issued, allocFrame>>

\* line 114, the write of "+=": shared_counter.value = tmp + NONCE_BLOCK_SIZE
WriteBack(p) ==
    /\ callers[p].pc = "add"
    /\ counter' = callers[p].tmp + NONCE_BLOCK_SIZE
    /\ callers' = [callers EXCEPT ![p].pc = "written"]
    /\ UNCHANGED <<lock, issued, allocFrame>>

\* leaving "with lock" (__exit__), then line 115: return start, start + NONCE_BLOCK_SIZE
Release(p) ==
    /\ callers[p].pc = "written"
    /\ lock' = IF lock = p THEN 0 ELSE lock
    /\ callers' = [callers EXCEPT ![p].pc = "done"]
    /\ UNCHANGED <<counter, issued, allocFrame>>

NextAlloc ==
    \E p \in Callers :
        \/ Call(p)
        \/ Acquire(p)
        \/ ReadStart(p)
        \/ ReadAgain(p)
        \/ WriteBack(p)
        \/ Release(p)

SpecAlloc == InitAlloc /\ [][NextAlloc]_vars

\* the range a caller that has read the counter returns
Returned(p) == [start |-> callers[p].start, end |-> callers[p].start + NONCE_BLOCK_SIZE]

HasRead(p) == callers[p].pc \in {"read", "add", "written", "done"}

\* C2: concurrent calls on a counter that starts at 0: no two callers read the same
\* value, their ranges are pairwise disjoint, in the order issued they are [0,1000),
\* [1000,2000), ..., and once all N calls have returned the ranges cover [0, 1000*N)
\* and the counter is 1000*N.
C2_AllocatorDisjoint ==
    /\ \A p, q \in Callers :
          (p # q /\ HasRead(p) /\ HasRead(q))
              => (callers[p].start # callers[q].start /\ Disjoint(Returned(p), Returned(q)))
    /\ \A i \in DOMAIN issued : issued[i] = (i - 1) * NONCE_BLOCK_SIZE
    /\ (\A p \in Callers : callers[p].pc = "done")
          => /\ {callers[p].start : p \in Callers}
                   = {(i - 1) * NONCE_BLOCK_SIZE : i \in 1 .. NCallers}
             /\ counter = NCallers * NONCE_BLOCK_SIZE

\* all the calls have returned, and not in the order of the callers' names
C2_Witness ==
    /\ \A p \in Callers : callers[p].pc = "done"
    /\ callers[1].start > callers[NCallers].start

----------------------------------------------------------------------------
(* One CachedBlockTemplate under get() and invalidation, with a node that   *)
(* may answer or fail.  The object is the variable cache.                   *)

\* the variables the cache operations leave alone
cacheFrame == <<counter, pc, k, tasks, lock, callers, issued, search, unitVars>>

InitCache ==
    /\ counter = 0
    /\ cache = NewCache
    /\ pc = "dispatch"
    /\ k = 1
    /\ tasks = <<>>
    /\ now = StartTime
    /\ tip = 0
    /\ nodeTarget = 0
    /\ nodeUp \in BOOLEAN
    /\ SideInit

\* block_template.get()
Get ==
    /\ LET g == CacheGet(cache, now, RpcGetBlockTemplate)
       IN  /\ cache' = g.obj
           /\ hist' = [fetchAt |-> IF g.fetched THEN now ELSE hist.fetchAt,
                       inval |-> IF g.fetched THEN FALSE ELSE hist.inval,
                       last |-> [got |-> IF ~g.asked THEN "cached"
                                         ELSE IF g.fetched THEN "fetched" ELSE "failed",
                                 at |-> now, up |-> nodeUp, ret |-> g.ret,
                                 pre |-> cache, post |-> g.obj,
                                 preFetchAt |-> hist.fetchAt, preInval |-> hist.inval]]
    /\ UNCHANGED <<now, tip, nodeTarget, nodeUp, cacheFrame>>

\* main, line 138: block_template.last_update = 0
Invalidate ==
    /\ cache' = [cache EXCEPT !.last_update = 0]
    /\ hist' = [hist EXCEPT !.inval = TRUE]
    /\ UNCHANGED <<now, tip, nodeTarget, nodeUp, cacheFrame>>

\* the clock moves by half the refresh interval, or by a second more than that
SmallTick ==
    /\ \E d \in {BLOCK_TEMPLATE_REFRESH_SECONDS \div 2, BLOCK_TEMPLATE_REFRESH_SECONDS \div 2 + 1} :
          now + d <= MaxNow /\ now' = now + d
    /\ UNCHANGED <<cache, hist, tip, nodeTarget, nodeUp, cacheFrame>>

NextCache ==
    \/ Get
    \/ Invalidate
    \/ SmallTick
    \/ NodeAdvance
    \/ NodeFlip

SpecCache == InitCache /\ [][NextCache]_vars

\* seconds between the last successful fetch before the last get() and that get()
SinceFetch == hist.last.at - hist.last.preFetchAt

\* C6: the first get() after construction asks the node; a get() no more than 30 s
\* after the last successful fetch, with no invalidation since, returns the cached
\* template without asking; a get() more than 30 s after it, or after an
\* invalidation, asks the node, and when the node answers returns the new template.
C6_CacheStaleness ==
    hist.last.got # "none" =>
        /\ hist.last.pre = NewCache =>
              hist.last.got = IF hist.last.up THEN "fetched" ELSE "failed"
        /\ (hist.last.preFetchAt >= 0 /\ ~hist.last.preInval
                /\ SinceFetch <= BLOCK_TEMPLATE_REFRESH_SECONDS)
              => /\ hist.last.got = "cached"
                 /\ hist.last.ret = hist.last.pre.template
                 /\ hist.last.post = hist.last.pre
        /\ ((hist.last.preFetchAt >= 0 /\ SinceFetch > BLOCK_TEMPLATE_REFRESH_SECONDS)
                \/ hist.last.preInval)
              => hist.last.got = IF hist.last.up THEN "fetched" ELSE "failed"
        /\ hist.last.got = "fetched"
              => /\ hist.last.ret.curtime = hist.last.at
                 /\ hist.last.post = [template |-> hist.last.ret, last_update |-> hist.last.at]

\* a get() exactly 30 s after the fetch was served from the cache
C6_Witness ==
    /\ hist.last.got = "cached"
    /\ SinceFetch = BLOCK_TEMPLATE_REFRESH_SECONDS

\* C7: a get() whose fetch fails returns the template cached before (nothing when
\* none was), leaves the template and last_update as they were, and the next get()
\* asks the node again.
C7_FailedFetch ==
    hist.last.got = "failed" =>
        /\ hist.last.ret = hist.last.pre.template
        /\ hist.last.post = hist.last.pre
        /\ \A t \in hist.last.at .. MaxNow : NeedsFetch(hist.last.post, t)

\* a fetch failed while a template was cached, and the stale template was returned
C7_Witness ==
    /\ hist.last.got = "failed"
    /\ Truthy(hist.last.ret)

----------------------------------------------------------------------------
(* The loop of btc_worker, one nonce at a time, over any range [start, end). *)

\* nonces a searched range may hold
MaxLen == 4

\* where a searched range may start: in a block of nonces, and across its end
SearchStarts ==
    {0, 1, NONCE_BLOCK_SIZE - 2, NONCE_BLOCK_SIZE - 1}

\* the variables the loop leaves alone
searchFrame ==
    <<counter, cache, pc, k, tasks, now, tip, nodeTarget, nodeUp, hist, lock, callers,
      issued, unitVars>>

InitSearch ==
    /\ counter = 0
    /\ cache = NewCache
    /\ pc = "dispatch"
    /\ k = 1
    /\ tasks = <<>>
    /\ now = StartTime
    /\ tip = 0
    /\ nodeTarget = 0
    /\ nodeUp = TRUE
    /\ UnitInit
    /\ hist = [fetchAt |-> -1, inval |-> FALSE, last |-> NoGet]
    /\ lock = 0
    /\ callers = <<>>
    /\ issued = <<>>
    /\ \E s \in SearchStarts, l \in 0 .. MaxLen, h \in 0 .. MaxTip, t \in Targets :
          search = [pc |-> "loop", start |-> s, end |-> s + l,
                    tmpl |-> [height |-> h, curtime |-> StartTime, target |-> t],
                    nonce |-> s, tried |-> 0]

\* lines 101-108: one turn of "for nonce in range(start, end)", or its end
LoopStep ==
    /\ search.pc = "loop"
    /\ search' =
          IF search.nonce >= search.end
          THEN [search EXCEPT !.pc = "False"]
          ELSE IF Hit(search.tmpl, search.tmpl.target, search.nonce)
          THEN [search EXCEPT !.pc = "True", !.tried = @ + 1]
          ELSE [search EXCEPT !.nonce = @ + 1, !.tried = @ + 1]
    /\ UNCHANGED searchFrame

NextSearch == LoopStep

SpecSearch == InitSearch /\ [][NextSearch]_vars

\* the digest of a nonce of the searched range
SearchDigest(n) == DigestInt(search.tmpl, PackLE32(n))

SearchRangeSet == search.start .. (search.end - 1)

\* C9: the worker reports found exactly when a nonce of the range has a digest
\* strictly below the target, and then acts on the smallest such nonce; a digest equal
\* to or above the target never counts; it reports not found only after it has tried
\* every nonce of the range.  (The loop taken whole, Search, gives the same answer.)
C9_FirstNonceBelowTarget ==
    /\ search.pc = "True" =>
          /\ search.nonce \in SearchRangeSet
          /\ SearchDigest(search.nonce) < search.tmpl.target
          /\ \A m \in search.start .. (search.nonce - 1) :
                SearchDigest(m) >= search.tmpl.target
          /\ Search(search.start, search.end, search.tmpl, search.tmpl.target)
                = [found |-> TRUE, nonce |-> search.nonce]
    /\ search.pc = "False" =>
          /\ \A m \in SearchRangeSet : SearchDigest(m) >= search.tmpl.target
          /\ search.tried = Cardinality(SearchRangeSet)
          /\ ~Search(search.start, search.end, search.tmpl, search.tmpl.target).found
    /\ search.pc = "loop" =>
          \A m \in search.start .. (search.nonce - 1) :
                SearchDigest(m) >= search.tmpl.target

\* found after passing over a nonce whose digest equals the target
C9_Witness ==
    /\ search.pc = "True"
    /\ \E m \in search.start .. (search.nonce - 1) : SearchDigest(m) = search.tmpl.target

----------------------------------------------------------------------------
(* Properties of the main loop *)

HasTemplate(t) == Truthy(t.bt.template)

\* the future the coordinator is waiting on has come back truthy
WinObserved ==
    /\ pc = "collect"
    /\ k <= Len(Futures)
    /\ tasks[FutureIndex(k)].st = "done"
    /\ tasks[FutureIndex(k)].res = "True"

\* C1: no two nonce ranges that workers are searching at the same time overlap,
\* ranges of an earlier wave that are still in flight after a win included.
C1_NoOverlap ==
    \A i, j \in Running : i # j => Disjoint(tasks[i], tasks[j])

\* C3: at most one submitblock is issued per template: no two workers have both
\* submitted a block built on the same template.
C3_OneSubmitPerTemplate ==
    \A i, j \in DOMAIN tasks :
        (i # j /\ tasks[i].block # NoBlock /\ tasks[j].block # NoBlock)
            => tasks[i].bt.template # tasks[j].bt.template

\* C4 as claimed: a worker that is the first to mine a template different from the
\* one mined before it was given the range [0, 1000).
C4_NewTemplateStartsAtZero ==
    \A j \in DOMAIN tasks :
        ( /\ HasTemplate(tasks[j])
          /\ \E i \in 1 .. (j - 1) :
                HasTemplate(tasks[i]) /\ tasks[i].bt.template # tasks[j].bt.template
          /\ \A i \in 1 .. (j - 1) : tasks[i].bt.template # tasks[j].bt.template )
        => (tasks[j].start = 0 /\ tasks[j].end = NONCE_BLOCK_SIZE)

\* C4 as amended: the counter goes back to 0 only when the coordinator has seen a
\* truthy result, it is 0 when the coordinator leaves that result, and every range
\* is allocated at the counter: the first range after a win is [0, 1000).
C4_ResetOnlyAfterWin ==
    [][ /\ (counter' = 0 /\ counter # 0) => WinObserved
        /\ (WinObserved /\ pc' # pc) => counter' = 0
        /\ Len(tasks') = Len(tasks) + 1 =>
              /\ tasks'[Len(tasks')].start = counter
              /\ tasks'[Len(tasks')].end = counter + NONCE_BLOCK_SIZE ]_vars

\* a range [0, 1000) of a new wave is queued while a template was mined on a range
\* of the wave before, still in flight
C4_Witness ==
    \E i, j \in DOMAIN tasks :
        /\ i < j /\ ~tasks[i].cur /\ tasks[i].start > 0
        /\ tasks[j].cur /\ tasks[j].start = 0 /\ tasks[j].end = NONCE_BLOCK_SIZE

\* C5: between two invalidation events one template is mined: the workers of a wave
\* hold the same template, and no two of them fetched it within one refresh interval.
C5_OneTemplatePerPeriod ==
    pc \in {"dispatch", "collect"} =>
        \A i, j \in DOMAIN tasks :
            (i < j /\ tasks[i].cur /\ tasks[j].cur /\ HasTemplate(tasks[i])
                   /\ HasTemplate(tasks[j]))
            => /\ tasks[i].bt.template = tasks[j].bt.template
               /\ tasks[j].bt.last_update - tasks[i].bt.last_update
                      > BLOCK_TEMPLATE_REFRESH_SECONDS

\* C11: an answer to getblocktemplate that lacks a key is treated like a failed call:
\* the worker returns no result and no exception reaches the coordinator.
C11_MalformedLikeTransportError ==
    /\ pc # "crashed"
    /\ \A i \in DOMAIN tasks :
          (Truthy(tasks[i].bt.template) /\ ~WellFormed(tasks[i].bt.template))
              => (tasks[i].st = "done" /\ tasks[i].res = "None")

\* the coordinator has left the for loop on a truthy result and has not yet
\* dropped the wave's futures
AfterWin ==
    /\ pc = "sleep"
    /\ k <= Len(Futures)

\* C12: on a truthy result the coordinator sets the counter to 0 and the cache's
\* last_update to 0 and leaves the for loop; it inspects no other future of the wave
\* and allocates nothing before the next wave, whose first range is [0, 1000) and
\* whose workers hold a cache object that fetches at its first access.
C12_ResetBeforeNextDispatch ==
    /\ [](AfterWin => (counter = 0 /\ cache.last_update = 0))
    /\ [](\A i \in DOMAIN tasks : tasks[i].st = "queued" => NeedsFetch(tasks[i].bt, now))
    /\ [][ /\ (WinObserved /\ pc' # pc) =>
                 (pc' = "sleep" /\ k' = k /\ tasks' = tasks /\ counter' = 0
                    /\ cache'.last_update = 0)
           /\ (AfterWin /\ pc' # pc) =>
                 (pc' = "dispatch" /\ counter' = 0 /\ Futures' = << >>
                    /\ Len(tasks') <= Len(tasks))
           /\ (AfterWin /\ pc' = pc) => (k' = k /\ counter' = counter)
           /\ (pc = "dispatch" /\ Futures = << >> /\ counter = 0
                 /\ Len(tasks') = Len(tasks) + 1) =>
                 /\ tasks'[Len(tasks')].start = 0
                 /\ tasks'[Len(tasks')].end = NONCE_BLOCK_SIZE
                 /\ tasks'[Len(tasks')].bt.last_update = 0 ]_vars

\* the coordinator has left the loop on the first future's find while the second
\* future of the wave, never inspected, holds a find as well
C12_Witness ==
    /\ AfterWin
    /\ k = 1
    /\ \E i \in DOMAIN tasks :
          /\ tasks[i].cur /\ i # FutureIndex(1)
          /\ tasks[i].st = "done" /\ tasks[i].res = "True"

\* C16: a worker whose submitblock was rejected or got no answer still returns True,
\* the block is submitted once, and the coordinator leaves that result as it leaves
\* any find: counter 0, cache invalidated, on to the sleep and the next dispatch.
C16_FailedSubmitStillWins ==
    /\ [](\A i \in DOMAIN tasks :
            tasks[i].verdict \in {"rejected", "failed"} =>
                (tasks[i].st = "done" /\ tasks[i].res = "True"
                   /\ tasks[i].block # NoBlock))
    /\ [][ /\ (WinObserved /\ tasks[FutureIndex(k)].verdict # "accepted" /\ pc' # pc) =>
                 (pc' = "sleep" /\ counter' = 0 /\ cache'.last_update = 0
                    /\ tasks' = tasks)
           /\ (AfterWin /\ tasks[FutureIndex(k)].verdict # "accepted" /\ pc' # pc) =>
                 (pc' = "dispatch" /\ counter' = 0)
           /\ Len(tasks') = Len(tasks) =>
                 \A i \in DOMAIN tasks :
                     tasks[i].verdict # "none" =>
                         (tasks'[i].verdict = tasks[i].verdict
                            /\ tasks'[i].block = tasks[i].block) ]_vars

\* the coordinator has left the loop on a find whose block the node rejected, while
\* another worker's submitblock got no answer
C16_Witness ==
    /\ AfterWin
    /\ counter = 0
    /\ tasks[FutureIndex(k)].verdict = "rejected"
    /\ \E i \in DOMAIN tasks : tasks[i].verdict = "failed"

\* C19: the counter is a non-negative multiple of NONCE_BLOCK_SIZE; it changes only
\* by +NONCE_BLOCK_SIZE when the coordinator allocates a range, which starts at the
\* old value, and by going to 0 when the coordinator has seen a truthy result; the
\* ranges allocated since the last reset start at strictly increasing values.
C19_CounterDiscipline ==
    /\ [](counter >= 0 /\ counter % NONCE_BLOCK_SIZE = 0)
    /\ [](\A i, j \in DOMAIN tasks :
            (tasks[i].cur /\ tasks[j].cur /\ i < j) =>
                (tasks[i].start < tasks[j].start
                   /\ (pc \in {"dispatch", "collect"} => tasks[j].start < counter)))
    /\ [][ /\ counter' # counter =>
                 \/ /\ counter' = counter + NONCE_BLOCK_SIZE
                    /\ pc = "dispatch"
                    /\ Len(tasks') = Len(tasks) + 1
                 \/ /\ counter' = 0
                    /\ WinObserved
                    /\ tasks' = tasks
           /\ Len(tasks') = Len(tasks) + 1 =>
                 /\ counter' = counter + NONCE_BLOCK_SIZE
                 /\ tasks'[Len(tasks')].start = counter
                 /\ tasks'[Len(tasks')].end = counter'
                 /\ \A i \in DOMAIN tasks :
                       tasks[i].cur => tasks[i].start < tasks'[Len(tasks')].start ]_vars

\* after a reset the counter has been advanced twice, while a work item of the wave
\* before the reset is still in the pool
C19_Witness ==
    /\ counter = 2 * NONCE_BLOCK_SIZE
    /\ Len(Futures) = 2
    /\ \E i \in DOMAIN tasks : ~tasks[i].cur

\* every future of the wave has been inspected and none was truthy
AllInspected ==
    /\ k = Len(Futures) + 1
    /\ \A n \in 1 .. Len(Futures) :
          Futures[n].st = "done" /\ Futures[n].res \in {"False", "None"}

\* C20: the coordinator takes the futures in dispatch order and stops at the first
\* truthy one: the result it acts on belongs to the lowest range of the wave that
\* gave a find, whatever the order the workers finished in; and it leaves a wave
\* only after a truthy result or after it has inspected every future of the wave.
C20_FirstTruthyInDispatchOrder ==
    /\ [](AfterWin =>
            /\ Futures[k].st = "done" /\ Futures[k].res = "True"
            /\ \A n \in 1 .. (k - 1) :
                  Futures[n].st = "done" /\ Futures[n].res \in {"False", "None"}
            /\ \A n \in 1 .. Len(Futures) :
                  Futures[n].res = "True" => Futures[k].start <= Futures[n].start)
    /\ [](pc = "sleep" => (AfterWin \/ AllInspected))
    /\ [][ /\ (Futures # << >> /\ Futures' = << >>) => pc = "sleep"
           /\ Len(tasks') = Len(tasks) + 1 => (pc = "dispatch" /\ Len(Futures) < CORES)
           /\ (pc' = "dispatch" /\ pc # "dispatch") => (pc = "sleep" /\ Futures' = << >>)
         ]_vars

\* the coordinator acts on the first future's find while the second future, on a
\* higher range, is done with a find too
C20_Witness ==
    /\ AfterWin
    /\ k = 1
    /\ Len(Futures) = 2
    /\ Futures[2].st = "done" /\ Futures[2].res = "True"
    /\ Futures[1].start < Futures[2].start

\* C8: the submitted block is the header that was hashed (the preimage and the
\* winning nonce in little-endian order), then the count 1, then the coinbase.
C8_SubmittedHeaderIsHashed ==
    \A i \in DOMAIN tasks :
        tasks[i].block # NoBlock =>
            /\ tasks[i].block.pre = tasks[i].bt.template
            /\ tasks[i].block.nonce = PackLE32(tasks[i].nonce)
            /\ tasks[i].block.txcount = 1
            /\ tasks[i].block.cb = tasks[i].bt.template.height

----------------------------------------------------------------------------
(* The main loop with a node that never answers.  The coordinator and the    *)
(* pool's workers are processes the system keeps scheduling, and             *)
(* time.sleep(0.05) returns: each of their steps is weakly fair.             *)

InitDown == Init /\ nodeUp = FALSE

NextDown ==
    \/ Submit
    \/ \E i \in DOMAIN tasks : Start(i)
    \/ Collect
    \/ Sleep
    \/ Tick
    \/ NodeAdvance

SpecDown ==
    /\ InitDown
    /\ [][NextDown]_vars
    /\ WF_vars(Submit)
    /\ WF_vars(\E i \in DOMAIN tasks : Start(i))
    /\ WF_vars(Collect)
    /\ WF_vars(Sleep)

\* no worker got a template, hashed or submitted, and the coordinator is running
IdleAndAlive ==
    /\ pc # "crashed"
    /\ cache = NewCache
    /\ \A i \in DOMAIN tasks :
          /\ ~HasTemplate(tasks[i])
          /\ tasks[i].st \in {"queued", "done"}
          /\ tasks[i].res \in {"none", "None"}
          /\ tasks[i].block = NoBlock

\* C10: with the node unreachable the loop neither ends nor crashes: every worker
\* returns None without a template, a hash or a submission, the coordinator resets
\* and invalidates nothing, and further ranges are always dispatched (as long as
\* the model lets the counter grow).
C10_UnreachableNodeIdles ==
    /\ []IdleAndAlive
    /\ [][counter' >= counter /\ cache' = cache]_vars
    /\ \A c \in RangeStarts : (counter = c) ~> (counter > c)

\* a second wave is being collected after a first whose workers all returned None
C10_Witness ==
    /\ ~nodeUp
    /\ pc = "collect"
    /\ counter > CORES * NONCE_BLOCK_SIZE
    /\ \E i \in DOMAIN tasks : tasks[i].st = "done" /\ tasks[i].res = "None"

----------------------------------------------------------------------------
(* The functions studied on their own leave the main loop where it starts. *)

mainVars == <<counter, cache, pc, k, tasks, now, tip, nodeTarget, nodeUp>>

histVars == <<hist, lock, callers, issued, search>>

MainIdle ==
    /\ counter = 0
    /\ cache = NewCache
    /\ pc = "dispatch"
    /\ k = 1
    /\ tasks = <<>>
    /\ now = StartTime
    /\ tip = 0
    /\ nodeTarget = 0
    /\ nodeUp = TRUE
    /\ hist = [fetchAt |-> -1, inval |-> FALSE, last |-> NoGet]
    /\ lock = 0
    /\ callers = <<>>
    /\ issued = <<>>
    /\ search = [pc |-> "idle"]

----------------------------------------------------------------------------
(* get_mining_script and create_coinbase in one process.  MINING_ADDR_HEX is a *)
(* module global; os.urandom(20) is a draw from RandomScripts; the node hands  *)
(* out a new address at every getnewaddress.                                   *)

\* calls the model follows in one process
MaxCalls == 3

\* distinct values os.urandom(20) may return
NRandom == 2

\* MINING_ADDR_HEX = None
NoScript == [kind |-> "None", id |-> 0]

RandomScripts == {[kind |-> "urandom", id |-> r] : r \in 1 .. NRandom}

\* bytes.fromhex(info["scriptPubKey"]) for the n-th address of the node
NodeScript(n) == [kind |-> "node", id |-> n]

Heights == {0, 1}

Messages == {"BTC_GROVER", "ESQET v8.3"}

\* get_mining_script with global g: the bytes returned, the global afterwards and
\* the RPCs issued; ok1 and ok2 say whether getnewaddress gave an address and
\* validateaddress a scriptPubKey, n is the address handed out, rnd the random draw
get_mining_script(g, ok1, ok2, n, rnd) ==
    IF g # NoScript THEN [ret |-> g, global |-> g, rpcs |-> << >>]
    ELSE IF ~ok1 THEN [ret |-> rnd, global |-> g, rpcs |-> <<"getnewaddress">>]
    ELSE IF ~ok2
    THEN [ret |-> rnd, global |-> g, rpcs |-> <<"getnewaddress", "validateaddress">>]
    ELSE [ret |-> NodeScript(n), global |-> NodeScript(n),
          rpcs |-> <<"getnewaddress", "validateaddress">>]

\* create_coinbase: the parts of the transaction that are not the same in every
\* coinbase (the packed height and the message of the script_sig, the output script)
create_coinbase(height, msg, script) == <<PackLE32(height), msg, script>>

scriptFrame == <<mainVars, histVars, far, hdr, cs, ledger>>

InitScript ==
    /\ MainIdle
    /\ far = [pc |-> "idle"]
    /\ hdr = [pc |-> "idle"]
    /\ cs = [pc |-> "idle"]
    /\ ledger = [pc |-> "idle"]
    /\ payout = [pc |-> "run", MINING_ADDR_HEX |-> NoScript, addrs |-> 0, log |-> << >>]

\* a call of get_mining_script (main, line 120)
CallGetMiningScript ==
    /\ payout.pc = "run"
    /\ Len(payout.log) < MaxCalls
    /\ \E ok1, ok2 \in BOOLEAN, rnd \in RandomScripts :
          LET g == get_mining_script(payout.MINING_ADDR_HEX, ok1, ok2,
                                     payout.addrs + 1, rnd)
          IN  payout' = [payout EXCEPT
                  !.MINING_ADDR_HEX = g.global,
                  !.addrs = IF Len(g.rpcs) > 0 /\ ok1 THEN @ + 1 ELSE @,
                  !.log = Append(@, [fn |-> "get_mining_script", height |-> -1,
                                     msg |-> "", script |-> g.ret, rpcs |-> g.rpcs,
                                     out |-> << >>])]
    /\ UNCHANGED scriptFrame

\* a call of create_coinbase (btc_worker, line 90), which asks for the script
CallCreateCoinbase ==
    /\ payout.pc = "run"
    /\ Len(payout.log) < MaxCalls
    /\ \E ok1, ok2 \in BOOLEAN, rnd \in RandomScripts, h \in Heights, m \in Messages :
          LET g == get_mining_script(payout.MINING_ADDR_HEX, ok1, ok2,
                                     payout.addrs + 1, rnd)
          IN  payout' = [payout EXCEPT
                  !.MINING_ADDR_HEX = g.global,
                  !.addrs = IF Len(g.rpcs) > 0 /\ ok1 THEN @ + 1 ELSE @,
                  !.log = Append(@, [fn |-> "create_coinbase", height |-> h,
                                     msg |-> m, script |-> g.ret, rpcs |-> g.rpcs,
                                     out |-> create_coinbase(h, m, g.ret)])]
    /\ UNCHANGED scriptFrame

NextScript ==
    \/ CallGetMiningScript
    \/ CallCreateCoinbase

SpecScript == InitScript /\ [][NextScript]_vars

\* C13: once a call has returned a script, resolved or random, every later call in
\* the process returns the same bytes and issues no getnewaddress or validateaddress.
C13_ScriptResolvedOnce ==
    \A i, j \in DOMAIN payout.log :
        i < j => /\ payout.log[j].script = payout.log[i].script
                 /\ payout.log[j].rpcs = << >>

\* C14: create_coinbase gives the same bytes for the same height and message when
\* the payout script is the same, and two calls made one after the other in one
\* process with the same height and message give the same bytes.
C14_CoinbaseDeterministic ==
    \A i, j \in DOMAIN payout.log :
        (/\ i < j
         /\ payout.log[i].fn = "create_coinbase" /\ payout.log[j].fn = "create_coinbase"
         /\ payout.log[i].height = payout.log[j].height
         /\ payout.log[i].msg = payout.log[j].msg)
        => /\ payout.log[i].script = payout.log[j].script
                => payout.log[i].out = payout.log[j].out
           /\ j = i + 1 => payout.log[i].out = payout.log[j].out

----------------------------------------------------------------------------
(* The main loop after a long run without a winner.  nonce_counter.value is a  *)
(* Python int held by the manager: it has no width.  Numbers near 2^32 are     *)
(* kept as two 16-bit limbs [hi, lo], value hi * 2^16 + lo.  The node is       *)
(* reachable or not, and its target is one no digest passes.                   *)

Limb == 2^16

\* waves of the long run the model follows
MaxFarWaves == 3

BigNum(hi, lo) == [hi |-> hi, lo |-> lo]

\* a + n for a natural n below 2^16
BigAdd(a, n) == [hi |-> a.hi + ((a.lo + n) \div Limb), lo |-> (a.lo + n) % Limb]

BigLess(a, b) == a.hi < b.hi \/ (a.hi = b.hi /\ a.lo < b.lo)

BigLeq(a, b) == a = b \/ BigLess(a, b)

\* 2^32, one more than the largest value struct.pack("<I", n) takes
TwoTo32 == BigNum(Limb, 0)

\* struct.pack("<I", n) raises struct.error unless 0 <= n < 2^32
FitsUint32(a) == BigLess(a, TwoTo32)

\* struct.pack("<I", n) of a number that fits
BigPackLE32(a) == << a.lo % 256, a.lo \div 256, a.hi % 256, a.hi \div 256 >>

\* the nonces one wave takes from the counter
WaveSize == CORES * NONCE_BLOCK_SIZE

\* 2^32 mod WaveSize
TwoTo32ModWave == ((Limb % WaveSize) * (Limb % WaveSize)) % WaveSize

\* the counter when the model takes up the run: the value it has at the start of a
\* wave after (2^32 - TwoTo32ModWave) / WaveSize - (MaxFarWaves - 1) waves without a
\* truthy result, MaxFarWaves - 1 waves before the wave that reaches 2^32
FarStart == BigNum(Limb - 1, Limb - TwoTo32ModWave - (MaxFarWaves - 1) * WaveSize)

\* where the model stops allocating
FarStop == BigAdd(BigAdd(FarStart, MaxFarWaves * WaveSize), WaveSize)

\* nonce_allocator on the counter c
big_allocator(c) ==
    [start |-> c, end |-> BigAdd(c, NONCE_BLOCK_SIZE), counter |-> BigAdd(c, NONCE_BLOCK_SIZE)]

\* the loop of btc_worker over [start, start + NONCE_BLOCK_SIZE): it returns True at
\* the first nonce that passes line 103, raises struct.error at the first nonce that
\* struct.pack("<I", nonce) does not take, and returns False otherwise
FarSearch(start, tmpl) ==
    LET Offsets == 0 .. (NONCE_BLOCK_SIZE - 1)
        Stops(o) == \/ ~FitsUint32(BigAdd(start, o))
                    \/ DigestInt(tmpl, BigPackLE32(BigAdd(start, o))) < tmpl.target
    IN  IF \A o \in Offsets : ~Stops(o) THEN "False"
        ELSE LET first == CHOOSE o \in Offsets :
                              Stops(o) /\ \A m \in 0 .. (o - 1) : ~Stops(m)
             IN  IF FitsUint32(BigAdd(start, first)) THEN "True" ELSE "raise"

farFrame ==
    <<counter, cache, pc, k, tasks, now, tip, nodeTarget, histVars, payout, hdr, cs,
      ledger>>

InitFar ==
    /\ MainIdle
    /\ payout = [pc |-> "idle"]
    /\ hdr = [pc |-> "idle"]
    /\ cs = [pc |-> "idle"]
    /\ ledger = [pc |-> "idle"]
    /\ far = [pc |-> "dispatch", counter |-> FarStart, k |-> 1, futures |-> << >>]

\* main: one turn of "for _ in range(CORES)"
FarSubmit ==
    /\ far.pc = "dispatch"
    /\ BigLess(far.counter, FarStop)
    /\ LET a == big_allocator(far.counter)
           item == [start |-> a.start, end |-> a.end, st |-> "queued", res |-> "none",
                    tmpl |-> NoTemplate]
       IN  far' = [far EXCEPT
                     !.counter = a.counter,
                     !.futures = Append(@, item),
                     !.k = 1,
                     !.pc = IF Len(far.futures) + 1 = CORES THEN "collect" ELSE "dispatch"]
    /\ UNCHANGED <<farFrame, nodeUp>>

\* btc_worker up to the loop, on the empty copy of the cache it was sent
FarEnter(i) ==
    /\ far.futures[i].st = "queued"
    /\ \A j \in 1 .. (i - 1) : far.futures[j].st # "queued"
    /\ LET g == CacheGet(NewCache, now, RpcGetBlockTemplate)
           e == WorkerEntry(g.ret)
       IN  far' = [far EXCEPT !.futures[i].tmpl = g.ret,
                              !.futures[i].st = IF e = "run" THEN "running" ELSE "done",
                              !.futures[i].res = IF e = "run" THEN "none" ELSE e]
    /\ UNCHANGED <<farFrame, nodeUp>>

\* btc_worker, the loop
FarLoop(i) ==
    /\ far.futures[i].st = "running"
    /\ far' = [far EXCEPT !.futures[i].st = "done",
                          !.futures[i].res = FarSearch(far.futures[i].start,
                                                       far.futures[i].tmpl)]
    /\ UNCHANGED <<farFrame, nodeUp>>

\* main: "for f in futures: if f.result(): ..." on the k-th future
FarCollect ==
    /\ far.pc = "collect"
    /\ far.k <= Len(far.futures)
    /\ far.futures[far.k].st = "done"
    /\ LET res == far.futures[far.k].res
           nxt == AfterResult(res, far.k, Len(far.futures))
       IN  far' = IF res = "raise" THEN [far EXCEPT !.pc = "crashed"]
                  ELSE [far EXCEPT !.counter = IF res = "True" THEN BigNum(0, 0) ELSE @,
                                   !.pc = nxt.pc,
                                   !.k = nxt.k]
    /\ UNCHANGED <<farFrame, nodeUp>>

\* main: time.sleep(0.05) and "futures = []"
FarSleep ==
    /\ far.pc = "sleep"
    /\ far' = [far EXCEPT !.pc = "dispatch", !.k = 1,
                          !.futures = SelectSeq(@, LAMBDA t : FALSE)]
    /\ UNCHANGED <<farFrame, nodeUp>>

\* the node becomes unreachable, or reachable again
FarNodeFlip ==
    /\ nodeUp' = ~nodeUp
    /\ UNCHANGED <<farFrame, far>>

NextFar ==
    \/ FarSubmit
    \/ \E i \in DOMAIN far.futures : FarEnter(i)
    \/ \E i \in DOMAIN far.futures : FarLoop(i)
    \/ FarCollect
    \/ FarSleep
    \/ FarNodeFlip

SpecFar == InitFar /\ [][NextFar]_vars

\* C15: every range handed to a worker lies in the uint32 nonce space,
\* 0 <= start < end <= 2^32, however long the run without a winner, and no two
\* work items of a wave hold the same range.
C15_RangesInUint32 ==
    \A i \in DOMAIN far.futures :
        /\ BigLeq(BigNum(0, 0), far.futures[i].start)
        /\ BigLess(far.futures[i].start, far.futures[i].end)
        /\ BigLeq(far.futures[i].end, TwoTo32)
        /\ \A j \in DOMAIN far.futures : j # i => far.futures[j].start # far.futures[i].start

----------------------------------------------------------------------------
(* The header btc_worker assembles, byte by byte.  A hex string is a sequence *)
(* of hex digits 0 .. 15, a byte string a sequence of bytes 0 .. 255.         *)

\* bytes.fromhex(h) for a string of an even number of digits
FromHex(h) == [i \in 1 .. (Len(h) \div 2) |-> 16 * h[2 * i - 1] + h[2 * i]]

\* b[::-1]
Reverse(b) == [i \in 1 .. Len(b) |-> b[Len(b) + 1 - i]]

\* struct.pack("<i", v): four bytes, two's complement, least significant first
PackLEi32(v) ==
    IF v >= 0 THEN PackLE32(v)
    ELSE [i \in 1 .. 4 |-> 255 - PackLE32(-v - 1)[i]]

\* dsha256(cb): the 32 bytes of a SHA-256 digest, here a function of the height
\* the coinbase carries
MerkleRoot(height) == [i \in 1 .. 32 |-> (7 * height + i) % 256]

\* a string of len hex digits
HexString(len, last) == [i \in 1 .. len |-> IF i = len THEN last ELSE i % 16]

\* previousblockhash of a template: 64 digits, and an answer one byte short
PrevHashes == {HexString(64, 1), HexString(64, 15), HexString(62, 1)}

\* bits of a template: "1d00ffff", "207fffff", and an answer one byte short
BitsValues == {<<1, 13, 0, 0, 15, 15, 15, 15>>, <<2, 0, 7, 15, 15, 15, 15, 15>>,
               <<1, 13, 0, 0, 15, 15>>}

\* version of a template: 1 and 0x20000000
Versions == {1, 2^29}

\* where the ranges of the model start: the first range, and one whose nonces
\* change the third byte
HeaderStarts == {0, 65 * NONCE_BLOCK_SIZE}

\* a header without the merkle root
header_pre_NoMerkle(tmpl, merkle) ==
    PackLEi32(tmpl.version) \o Reverse(FromHex(tmpl.previousblockhash))
        \o PackLE32(tmpl.curtime) \o Reverse(FromHex(tmpl.bits))

\* btc_worker, lines 92-98
header_pre(tmpl, merkle) ==
    PackLEi32(tmpl.version) \o Reverse(FromHex(tmpl.previousblockhash)) \o merkle
        \o PackLE32(tmpl.curtime) \o Reverse(FromHex(tmpl.bits))

headerFrame == <<mainVars, histVars, payout, far, cs, ledger>>

InitHeader ==
    /\ MainIdle
    /\ payout = [pc |-> "idle"]
    /\ far = [pc |-> "idle"]
    /\ cs = [pc |-> "idle"]
    /\ ledger = [pc |-> "idle"]
    /\ \E v \in Versions, p \in PrevHashes, b \in BitsValues, s \in HeaderStarts,
          h \in Heights :
          hdr = [pc |-> "entry",
                 tmpl |-> [version |-> v, previousblockhash |-> p, bits |-> b,
                           curtime |-> StartTime, height |-> h],
                 start |-> s, end |-> s + NONCE_BLOCK_SIZE, nonce |-> s,
                 header_pre |-> << >>, header |-> << >>]

\* btc_worker, lines 90-98: the coinbase, its hash, the preimage
BuildHeader ==
    /\ hdr.pc = "entry"
    /\ hdr' = [hdr EXCEPT !.pc = "loop",
                          !.header_pre = header_pre(hdr.tmpl, MerkleRoot(hdr.tmpl.height))]
    /\ UNCHANGED headerFrame

\* btc_worker, lines 101-102: one turn of the loop, up to the hash
HashNonce ==
    /\ hdr.pc = "loop"
    /\ hdr.nonce < hdr.end
    /\ hdr' = [hdr EXCEPT !.header = hdr.header_pre \o PackLE32(hdr.nonce),
                          !.nonce = @ + 1]
    /\ UNCHANGED headerFrame

NextHeader ==
    \/ BuildHeader
    \/ HashNonce

SpecHeader == InitHeader /\ [][NextHeader]_vars

\* the template's previousblockhash decodes to 32 bytes and its bits to 4
Decodes32And4(tmpl) ==
    /\ Len(FromHex(tmpl.previousblockhash)) = 32
    /\ Len(FromHex(tmpl.bits)) = 4

\* C17: for a template whose previousblockhash decodes to 32 bytes and whose bits
\* decode to 4, the preimage is 76 bytes (version 4, reversed previous hash 32, merkle
\* root 32, curtime 4, reversed bits 4), and the header hashed for each nonce of the
\* range is these 76 bytes followed by the 4 bytes of the nonce, 80 in all.
C17_HeaderIs80Bytes ==
    (hdr.pc = "loop" /\ Decodes32And4(hdr.tmpl)) =>
        /\ Len(hdr.header_pre) = 76
        /\ SubSeq(hdr.header_pre, 1, 4) = PackLEi32(hdr.tmpl.version)
        /\ SubSeq(hdr.header_pre, 5, 36) = Reverse(FromHex(hdr.tmpl.previousblockhash))
        /\ SubSeq(hdr.header_pre, 37, 68) = MerkleRoot(hdr.tmpl.height)
        /\ SubSeq(hdr.header_pre, 69, 72) = PackLE32(hdr.tmpl.curtime)
        /\ SubSeq(hdr.header_pre, 73, 76) = Reverse(FromHex(hdr.tmpl.bits))
        /\ hdr.nonce > hdr.start =>
              /\ Len(hdr.header) = 80
              /\ SubSeq(hdr.header, 1, 76) = hdr.header_pre
              /\ SubSeq(hdr.header, 77, 80) = PackLE32(hdr.nonce - 1)

\* the last nonce of a range whose nonces reach the third byte has been appended
C17_Witness ==
    /\ hdr.pc = "loop"
    /\ Decodes32And4(hdr.tmpl)
    /\ hdr.start > 0
    /\ hdr.nonce = hdr.end
    /\ Len(hdr.header) = 80
    /\ hdr.header[79] = 1

----------------------------------------------------------------------------
(* compact_size.  Its argument is a Python int, which has no width: a natural *)
(* number is kept as its bytes, least significant first, without leading zero *)
(* bytes (0 is the empty sequence).  The marker literals of lines 34-36 are   *)
(* read as the bytes 0xFD, 0xFE and 0xFF.                                     *)

\* bytes of the longest argument the model draws
MaxBytes == 9

NumLess(a, b) ==
    \/ Len(a) < Len(b)
    \/ /\ Len(a) = Len(b)
       /\ \E i \in 1 .. Len(a) : a[i] < b[i] /\ \A j \in (i + 1) .. Len(a) : a[j] = b[j]

NumLeq(a, b) == a = b \/ NumLess(a, b)

\* struct.pack of an unsigned format of the given width ("<B", "<H", "<I", "<Q"):
\* struct.error when the number needs more bytes
PackLE(n, width) ==
    IF Len(n) > width THEN [err |-> TRUE, out |-> << >>]
    ELSE [err |-> FALSE, out |-> [i \in 1 .. width |-> IF i <= Len(n) THEN n[i] ELSE 0]]

\* marker + struct.pack(...)
WithMarker(marker, packed) ==
    IF packed.err THEN packed ELSE [err |-> FALSE, out |-> <<marker>> \o packed.out]

\* compact_size with <= in its first test
compact_size_LeqFD(n) ==
    IF NumLeq(n, <<253>>) THEN PackLE(n, 1)
    ELSE IF NumLeq(n, <<255, 255>>) THEN WithMarker(253, PackLE(n, 2))
    ELSE IF NumLeq(n, <<255, 255, 255, 255>>) THEN WithMarker(254, PackLE(n, 4))
    ELSE WithMarker(255, PackLE(n, 8))

\* compact_size, lines 32-36
compact_size(n) ==
    IF NumLess(n, <<253>>) THEN PackLE(n, 1)
    ELSE IF NumLeq(n, <<255, 255>>) THEN WithMarker(253, PackLE(n, 2))
    ELSE IF NumLeq(n, <<255, 255, 255, 255>>) THEN WithMarker(254, PackLE(n, 4))
    ELSE WithMarker(255, PackLE(n, 8))

\* the number of len bytes with the given lowest, middle and highest bytes
NumOf(len, low, fill, top) ==
    [i \in 1 .. len |-> IF i = len THEN top ELSE IF i = 1 THEN low ELSE fill]

\* the arguments of the model: every length up to MaxBytes, bytes at and next to the
\* limits of the tests (0xFC, 0xFD, 0xFFFF, 0x10000, 0xFFFFFFFF, 0x100000000,
\* 2^64 - 1 and 2^64 are among them)
Nums ==
    {NumOf(len, low, fill, top) :
        len \in 0 .. MaxBytes, low \in {0, 252, 253, 255}, fill \in {0, 255},
        top \in {1, 252, 253, 255}}

sizeFrame == <<mainVars, histVars, payout, far, hdr, ledger>>

InitSize ==
    /\ MainIdle
    /\ payout = [pc |-> "idle"]
    /\ far = [pc |-> "idle"]
    /\ hdr = [pc |-> "idle"]
    /\ ledger = [pc |-> "idle"]
    /\ \E a, b \in Nums :
          cs = [pc |-> "call", a |-> a, b |-> b,
                ea |-> [err |-> FALSE, out |-> << >>],
                eb |-> [err |-> FALSE, out |-> << >>]]

\* compact_size(a), then compact_size(b)
CallCompactSize ==
    /\ cs.pc = "call"
    /\ cs' = [cs EXCEPT !.pc = "done", !.ea = compact_size(cs.a), !.eb = compact_size(cs.b)]
    /\ UNCHANGED sizeFrame

NextSize == CallCompactSize

SpecSize == InitSize /\ [][NextSize]_vars

\* little-endian bytes of n in e.out after the marker, padded to width
TailIs(e, n, width) ==
    /\ Len(e.out) = width + 1
    /\ \A i \in 1 .. width : e.out[i + 1] = IF i <= Len(n) THEN n[i] ELSE 0

\* the classes of the encoding up to 0xFFFFFFFF, stated on the bytes of n
SmallClasses(n, e) ==
    /\ (Len(n) = 0 \/ (Len(n) = 1 /\ n[1] < 253)) =>
          (~e.err /\ e.out = <<IF Len(n) = 0 THEN 0 ELSE n[1]>>)
    /\ ((Len(n) = 1 /\ n[1] >= 253) \/ Len(n) = 2) =>
          (~e.err /\ e.out[1] = 253 /\ TailIs(e, n, 2))
    /\ Len(n) \in {3, 4} => (~e.err /\ e.out[1] = 254 /\ TailIs(e, n, 4))

\* C18: compact_size gives n < 0xFD as the byte n, 0xFD..0xFFFF as a marker and 2
\* little-endian bytes, 0x10000..0xFFFFFFFF as a marker and 4 bytes, every larger n
\* as a marker and 8 bytes, and no two numbers the same encoding.
C18_CompactSizeClasses ==
    cs.pc = "done" =>
        /\ SmallClasses(cs.a, cs.ea)
        /\ Len(cs.a) >= 5 => (~cs.ea.err /\ cs.ea.out[1] = 255 /\ TailIs(cs.ea, cs.a, 8))
        /\ cs.ea = cs.eb => cs.a = cs.b

\* C18 as amended: the same, where "every larger n" ends at 2^64 - 1: from 2^64 on
\* struct.pack("<Q", n) raises struct.error and there is no encoding.
C18_CompactSizeClassesUint64 ==
    cs.pc = "done" =>
        /\ SmallClasses(cs.a, cs.ea)
        /\ Len(cs.a) \in 5 .. 8 =>
              (~cs.ea.err /\ cs.ea.out[1] = 255 /\ TailIs(cs.ea, cs.a, 8))
        /\ Len(cs.a) > 8 => cs.ea.err
        /\ (~cs.ea.err /\ ~cs.eb.err /\ cs.ea.out = cs.eb.out) => cs.a = cs.b

\* 0xFFFFFFFF and 0x100000000 have been encoded, in 5 and in 9 bytes
C18_Witness ==
    /\ cs.pc = "done"
    /\ cs.a = <<255, 255, 255, 255>>
    /\ cs.b = <<0, 0, 0, 0, 1>>
    /\ Len(cs.ea.out) = 5
    /\ Len(cs.eb.out) = 9

----------------------------------------------------------------------------
(* The two ledgers: class MinervaChain of src/src/miner.py (blocks) and class  *)
(* MinervaChain of src/src/minerva_chain.py (chain, chain.json, the voucher    *)
(* files).  A digest is kept as the record of what was hashed, so two digests  *)
(* are equal exactly when the hashed contents are.                             *)

\* blocks the model lets the ledger of miner.py grow to
MaxBlocks == 3

\* calls of mint_soul of minerva_chain.py the model follows
MaxMints == 2

\* seconds the clock of the ledgers may advance
MaxLedgerTicks == 2

\* "0" * 64
ZeroHash == [zeros |-> 64]

\* get_last_block() of an empty chain: None
NoneBlock == [none |-> TRUE]

\* soul_data and ipfs_uri handed to mint_soul of miner.py
MinerSouls == {"Eternal Soul #1", "Eternal Soul #2"}

Uris == {"ipfs://QmVideoCIDPlaceholder"}

\* Block.compute_hash of miner.py: sha256 over index, previous_hash, timestamp, data
miner_compute_hash(b) ==
    [sha256 |-> [index |-> b.index, previous_hash |-> b.previous_hash,
                 timestamp |-> b.timestamp, data |-> b.data]]

\* Block.create_block of miner.py at time t
miner_create_block(index, previous_hash, data, t) ==
    LET temp == [index |-> index, previous_hash |-> previous_hash, timestamp |-> t,
                 data |-> data, hash |-> NoneBlock]
    IN  [temp EXCEPT !.hash = miner_compute_hash(temp)]

\* MinervaChain.get_last_block of miner.py
miner_get_last_block(blocks) ==
    IF Len(blocks) > 0 THEN blocks[Len(blocks)] ELSE NoneBlock

\* MinervaChain.proof_of_coherence of miner.py: the test block that follows last_block
miner_proof_of_coherence(last_block, t) ==
    LET index == IF last_block # NoneBlock THEN last_block.index + 1 ELSE 0
        previous_hash == IF last_block # NoneBlock THEN last_block.hash ELSE ZeroHash
    IN  miner_create_block(index, previous_hash, [sample |-> index], t)

\* mint_soul of miner.py without line 60: the hash of the test block is kept
miner_mint_soul_NoRehash(blocks, soul_data, ipfs_uri, t) ==
    LET new_block == miner_proof_of_coherence(miner_get_last_block(blocks), t)
    IN  Append(blocks, [new_block EXCEPT !.data = [soul |-> soul_data, ipfs |-> ipfs_uri]])

\* MinervaChain.mint_soul of miner.py: the chain after the call
miner_mint_soul(blocks, soul_data, ipfs_uri, t) ==
    LET new_block == miner_proof_of_coherence(miner_get_last_block(blocks), t)
        with_data == [new_block EXCEPT !.data = [soul |-> soul_data, ipfs |-> ipfs_uri]]
    IN  Append(blocks, [with_data EXCEPT !.hash = miner_compute_hash(with_data)])

\* SACRED_SAMPLES of minerva_chain.py
SACRED_SAMPLES == 198

\* the last nonce proof_of_coherence of minerva_chain.py tries
NonceLimit == 100000

\* the tolerances of validate_soul, in the units the model keeps the fields in:
\* final_phi4 - PHI4_TARGET in 1e-10, f_qc - FQC_THRESHOLD in 1e-7,
\* retrocausal_wing - PHI_INV in 0.001
Tolerance == 10

\* an EternalSoul, by the fields validate_soul reads
Souls ==
    [trace_len : {SACRED_SAMPLES - 1, SACRED_SAMPLES},
     phi4_dev : {0, Tolerance, Tolerance + 1},
     fqc_diff : {-(Tolerance + 1), -Tolerance, 0},
     wing_dev : {0, Tolerance, Tolerance + 1}]

\* the soul of create_genesis: no trace, every field on its target
GenesisSoul == [trace_len |-> 0, phi4_dev |-> 0, fqc_diff |-> 0, wing_dev |-> 0]

Abs(x) == IF x < 0 THEN -x ELSE x

\* MinervaChain.validate_soul of minerva_chain.py
validate_soul(soul) ==
    /\ ~(soul.trace_len # SACRED_SAMPLES)
    /\ ~(Abs(soul.phi4_dev) > Tolerance)
    /\ ~(soul.fqc_diff < -Tolerance)
    /\ ~(Abs(soul.wing_dev) > Tolerance)

\* what a call that raises gives instead of a value
TypeError == [raised |-> "TypeError"]

NoVoucher == [voucher |-> "None"]

\* Block(...) of minerva_chain.py, a dataclass: index, timestamp, soul, previous_hash
\* and hash have no default, nonce and voucher have; a call that leaves out a field
\* without default raises TypeError
BlockInit(args) ==
    IF {"index", "timestamp", "soul", "previous_hash", "hash"} \subseteq DOMAIN args
    THEN [index |-> args.index, timestamp |-> args.timestamp, soul |-> args.soul,
          previous_hash |-> args.previous_hash, hash |-> args.hash,
          nonce |-> IF "nonce" \in DOMAIN args THEN args.nonce ELSE 0,
          voucher |-> IF "voucher" \in DOMAIN args THEN args.voucher ELSE NoVoucher]
    ELSE TypeError

\* MinervaChain.hash_block of minerva_chain.py: sha3_512 over the block with hash and
\* voucher blanked
hash_block(block) ==
    [sha3_512 |-> [index |-> block.index, timestamp |-> block.timestamp,
                   soul |-> block.soul, previous_hash |-> block.previous_hash,
                   nonce |-> block.nonce]]

\* MinervaChain.proof_of_coherence of minerva_chain.py at time t; first is the first
\* nonce whose hash passes line 189 (NonceLimit + 1 when none up to NonceLimit does)
proof_of_coherence(last_block, t, first) ==
    LET test_block == BlockInit([index |-> last_block.index + 1, timestamp |-> t,
                                 soul |-> last_block.soul,
                                 previous_hash |-> last_block.hash, nonce |-> 0])
    IN  IF test_block = TypeError THEN [raised |-> TRUE, value |-> 0]
        ELSE IF first <= NonceLimit THEN [raised |-> FALSE, value |-> first]
        ELSE [raised |-> FALSE, value |-> -1]

\* create_lazy_mint_voucher, by what the voucher is made from
create_lazy_mint_voucher(soul, ipfs_hash) == [voucher |-> "signed", soul |-> soul,
                                              ipfs |-> ipfs_hash]

\* MinervaChain.mint_soul of minerva_chain.py on the ledger l at time t: the chain,
\* chain.json and the voucher files afterwards, what proof_of_coherence gave and what
\* the call returned ("TypeError" when it raised)
mint_soul(l, soul, ipfs_hash, t, first) ==
    LET same == [chain |-> l.chain, saved |-> l.saved, vouchers |-> l.vouchers]
        last_block == l.chain[Len(l.chain)]
        poc == proof_of_coherence(last_block, t, first)
        new_block == BlockInit([index |-> last_block.index + 1, timestamp |-> t,
                                soul |-> soul, previous_hash |-> last_block.hash,
                                nonce |-> poc.value,
                                voucher |-> create_lazy_mint_voucher(soul, ipfs_hash)])
    IN  IF ~validate_soul(soul)
        THEN [st |-> same, pocCalled |-> FALSE, poc |-> [raised |-> FALSE, value |-> 0],
              result |-> "False"]
        ELSE IF poc.raised
        THEN [st |-> same, pocCalled |-> TRUE, poc |-> poc, result |-> "TypeError"]
        ELSE IF poc.value = -1
        THEN [st |-> same, pocCalled |-> TRUE, poc |-> poc, result |-> "False"]
        ELSE IF new_block = TypeError
        THEN [st |-> same, pocCalled |-> TRUE, poc |-> poc, result |-> "TypeError"]
        ELSE LET chain == Append(l.chain, [new_block EXCEPT !.hash = hash_block(new_block)])
             IN  [st |-> [chain |-> chain, saved |-> chain,
                          vouchers |-> l.vouchers \cup {new_block.index}],
                  pocCalled |-> TRUE, poc |-> poc, result |-> "True"]

\* MinervaChain.create_genesis of minerva_chain.py at time t
create_genesis(t) ==
    LET genesis == BlockInit([index |-> 0, timestamp |-> t, soul |-> GenesisSoul,
                              previous_hash |-> ZeroHash, hash |-> ""])
    IN  <<[genesis EXCEPT !.hash = hash_block(genesis)]>>

NoCall == [called |-> FALSE, valid |-> FALSE, pocCalled |-> FALSE,
           poc |-> [raised |-> FALSE, value |-> 0], result |-> "none", unchanged |-> TRUE]

ledgerFrame == <<mainVars, histVars, payout, far, hdr, cs>>

\* the ledger of miner.py after __init__ (no block), the ledger of minerva_chain.py
\* after __init__ in a directory without a loadable chain.json (the genesis block,
\* saved)
InitLedger ==
    /\ MainIdle
    /\ payout = [pc |-> "idle"]
    /\ far = [pc |-> "idle"]
    /\ hdr = [pc |-> "idle"]
    /\ cs = [pc |-> "idle"]
    /\ ledger = [pc |-> "run", now |-> StartTime, blocks |-> << >>, minted |-> 0,
                 chain |-> create_genesis(StartTime), saved |-> create_genesis(StartTime),
                 vouchers |-> {}, calls |-> 0, last |-> NoCall]

\* miner.py, lines 71-73: the genesis block of an empty chain
MinerGenesis ==
    /\ ledger.pc = "run"
    /\ ledger.blocks = << >>
    /\ ledger' = [ledger EXCEPT !.blocks =
                     <<miner_create_block(0, ZeroHash, [text |-> "Genesis Block"],
                                          ledger.now)>>]
    /\ UNCHANGED ledgerFrame

\* miner.py: chain.mint_soul(soul, uri)
MinerMintSoul ==
    /\ ledger.pc = "run"
    /\ Len(ledger.blocks) < MaxBlocks
    /\ \E soul \in MinerSouls, uri \in Uris :
          ledger' = [ledger EXCEPT
                        !.blocks = miner_mint_soul(ledger.blocks, soul, uri, ledger.now),
                        !.minted = @ + 1]
    /\ UNCHANGED ledgerFrame

\* minerva_chain.py: chain.mint_soul(soul, ipfs) by a caller that goes on after an
\* exception
MinervaMintSoul ==
    /\ ledger.pc = "run"
    /\ ledger.calls < MaxMints
    /\ \E soul \in Souls, uri \in Uris, first \in {0, NonceLimit, NonceLimit + 1} :
          LET r == mint_soul(ledger, soul, uri, ledger.now, first)
          IN  ledger' = [ledger EXCEPT
                            !.chain = r.st.chain,
                            !.saved = r.st.saved,
                            !.vouchers = r.st.vouchers,
                            !.calls = @ + 1,
                            !.last = [called |-> TRUE, valid |-> validate_soul(soul),
                                      pocCalled |-> r.pocCalled, poc |-> r.poc,
                                      result |-> r.result,
                                      unchanged |-> /\ r.st.chain = ledger.chain
                                                    /\ r.st.saved = ledger.saved
                                                    /\ r.st.vouchers = ledger.vouchers]]
    /\ UNCHANGED ledgerFrame

\* int(time.time()) moves on
LedgerTick ==
    /\ ledger.pc = "run"
    /\ ledger.now < StartTime + MaxLedgerTicks
    /\ ledger' = [ledger EXCEPT !.now = @ + 1]
    /\ UNCHANGED ledgerFrame

NextLedger ==
    \/ MinerGenesis
    \/ MinerMintSoul
    \/ MinervaMintSoul
    \/ LedgerTick

SpecLedger == InitLedger /\ [][NextLedger]_vars

\* the chain c is linked, its stored hashes being those H recomputes
Linked(c, H(_)) ==
    \A i \in DOMAIN c :
        /\ c[i].hash = H(c[i])
        /\ i > 1 => /\ c[i].index = c[i - 1].index + 1
                    /\ c[i].previous_hash = c[i - 1].hash

\* the chain c2 is the chain c1, or c1 with one block after it
Extends(c1, c2) ==
    /\ Len(c2) \in {Len(c1), Len(c1) + 1}
    /\ \A i \in DOMAIN c1 : c2[i] = c1[i]

\* C21: after any sequence of mint_soul calls both chains are hash-linked (index and
\* previous_hash follow the block before, the stored hash is the hash recomputed from
\* the block's final contents), and a mint_soul that succeeds adds exactly one block
\* and changes no earlier block.
C21_ChainHashLinked ==
    /\ [](ledger.pc = "run" =>
            /\ Linked(ledger.blocks, miner_compute_hash)
            /\ Linked(ledger.chain, hash_block))
    /\ [][ ledger.pc = "run" =>
             /\ Extends(ledger.blocks, ledger'.blocks)
             /\ Extends(ledger.chain, ledger'.chain)
             /\ ledger'.minted # ledger.minted =>
                   Len(ledger'.blocks) = Len(ledger.blocks) + 1
             /\ (ledger'.calls # ledger.calls) =>
                   (ledger'.last.result = "True"
                       <=> Len(ledger'.chain) = Len(ledger.chain) + 1) ]_vars

\* the ledger of miner.py holds a genesis block and two minted souls, the second
\* minted at a later second than the first
C21_Witness ==
    /\ ledger.pc = "run"
    /\ Len(ledger.blocks) = 3
    /\ ledger.minted = 2
    /\ ledger.blocks[3].timestamp > ledger.blocks[2].timestamp
    /\ ledger.blocks[3].previous_hash = ledger.blocks[2].hash

\* C22: a mint_soul of minerva_chain.py that fails (the soul does not pass
\* validate_soul, or proof_of_coherence gave -1) returns False and leaves the chain,
\* chain.json and the voucher files as they were; and proof_of_coherence, when called,
\* returns a nonce in 0 .. NonceLimit or -1.
C22_FailedMintLeavesChain ==
    (ledger.pc = "run" /\ ledger.last.called) =>
        /\ ledger.last.pocCalled =>
              (~ledger.last.poc.raised /\ ledger.last.poc.value \in -1 .. NonceLimit)
        /\ (~ledger.last.valid \/ (ledger.last.pocCalled /\ ledger.last.poc.value = -1)) =>
              (ledger.last.result = "False" /\ ledger.last.unchanged)

====
